---- MODULE Spec2Model ----
(***************************************************************************)
(* markdown-printing: src/src/main.rs.                                     *)
(*                                                                         *)
(* transpile_markdown runs a Logos lexer over the input and, token by      *)
(* token, appends printer control codes or the token's text to a byte      *)
(* buffer, keeping five boolean flags in a State record.                   *)
(*                                                                         *)
(* Characters and bytes are one-character strings; the escape byte 0x1B is *)
(* written "ESC", the backquote "TICK".  An input is a sequence of         *)
(* characters, the output buffer a sequence of bytes.  All characters used *)
(* are ASCII, so a character offset is a byte offset.                      *)
(***************************************************************************)
EXTENDS Integers, Sequences, FiniteSets, TLC

VARIABLES
    input,        \* the &str handed to transpile_markdown
    token_start,  \* lex.span().start: offset where the last token began
    token_end,    \* lex.span().end: offset of the first unread character
    tok,          \* the last result of lex.next(): a variant, "Err", "None",
                  \* or "Start" before the first call
    state,        \* the State record of five flags
    res,          \* the output Vec<u8>
    pc,           \* "call" before the call, "loop" inside the while loop,
                  \* "done" after the return
    other         \* a second call of transpile_markdown, with its own
                  \* input, lexer offset, State and buffer; NoOther when
                  \* there is none

vars == <<input, token_start, token_end, tok, state, res, pc, other>>

----------------------------------------------------------------------------
(* Bounds of the model: an input is the concatenation of at most MaxFrags  *)
(* fragments drawn from Frags.                                             *)

MaxFrags == 4

LF == "\n"

\* The backquote character.
TICK == "TICK"

Frags ==
    { <<"*", "*">>, <<"*">>, <<"_", "_">>, <<"_">>, <<"#">>, <<LF>>,
      <<" ">>, <<"a">>, <<"-", " ">>, <<"{", "2", ",", "}">>,
      <<TICK, TICK, TICK>> }

RECURSIVE Flatten(_)
Flatten(fs) == IF fs = <<>> THEN <<>> ELSE Head(fs) \o Flatten(Tail(fs))

Inputs ==
    { Flatten(fs) : fs \in UNION { [1..n -> Frags] : n \in 0..MaxFrags } }

\* Longer inputs over fewer fragments: at most MaxDeep fragments of
\* DeepFrags, which lex into every token kind but UnorderedList and
\* Codeblock.
MaxDeep == 5

DeepFrags ==
    { <<"*">>, <<"_">>, <<"#">>, <<LF>>, <<"a">>, <<"{", "2", ",", "}">>,
      <<"[", "a", "]", "(", "a", ")">> }

DeepInputs ==
    { Flatten(fs) : fs \in UNION { [1..n -> DeepFrags] : n \in 0..MaxDeep } }

\* Short inputs that lex into every token kind: at most MaxBlocks fragments
\* of BlockFrags.
MaxBlocks == 3

BlockFrags ==
    { <<"*">>, <<"_">>, <<"#">>, <<LF>>, <<"a">>, <<"{", "2", ",", "}">>,
      <<"[", "a", "]", "(", "a", ")">>, <<"-", " ">>, <<TICK, TICK, TICK>> }

BlockInputs ==
    { Flatten(fs) : fs \in UNION { [1..n -> BlockFrags] : n \in 0..MaxBlocks } }

\* Two calls: this one on at most MaxTwo fragments of BlockFrags, the other
\* on at most MaxTwo fragments of OtherFrags.
MaxTwo == 2

TwoInputs ==
    { Flatten(fs) : fs \in UNION { [1..n -> BlockFrags] : n \in 0..MaxTwo } }

OtherFrags == { <<"*", "*">>, <<"#">>, <<"a">> }

OtherInputs ==
    { Flatten(fs) : fs \in UNION { [1..n -> OtherFrags] : n \in 0..MaxTwo } }

----------------------------------------------------------------------------
(* Control codes: the byte-string literals of lines 104-110.               *)

ESC == "ESC"

BOLD_ON == <<ESC, "E">>
BOLD_OFF == <<ESC, "F">>
ITALIC_ON == <<ESC, "4">>
ITALIC_OFF == <<ESC, "5">>
UNDERLINE_ON == <<ESC, "-", "1">>
UNDERLINE_OFF == <<ESC, "-", "0">>
TOP_HEADER_OPEN == <<LF, LF, ESC, "E", ESC, "w", "1", ESC, "W", "1">>
TOP_HEADER_CLOSE == <<ESC, "F", ESC, "w", "0", ESC, "W", "0", LF>>
LOWER_HEADER_OPEN == <<LF, LF, ESC, "w", "1">>
LOWER_HEADER_CLOSE == <<ESC, "w", "0", LF>>

----------------------------------------------------------------------------
(* The lexer derived from enum Token.  Each rule is modelled by the length *)
(* of its longest match at position i (1-based) of s, 0 when it does not   *)
(* match there.  Logos returns the longest match over all rules.           *)

EOF == "EOF"

At(s, i) == IF i >= 1 /\ i <= Len(s) THEN s[i] ELSE EOF

\* c is a character of the class `set' (neg = FALSE) or of the negated
\* class [^set] (neg = TRUE).
InClass(c, set, neg) == c # EOF /\ (IF neg THEN c \notin set ELSE c \in set)

\* Length of the maximal run of class characters starting at i <= Len(s)+1.
Run(s, i, set, neg) ==
    CHOOSE k \in 0..(Len(s) + 1 - i) :
        /\ \A j \in i..(i + k - 1) : InClass(s[j], set, neg)
        /\ ~InClass(At(s, i + k), set, neg)

\* #[token(lit)]: the literal text lit.
LitLen(s, i, lit) ==
    IF i + Len(lit) - 1 <= Len(s) /\ SubSeq(s, i, i + Len(lit) - 1) = lit
    THEN Len(lit) ELSE 0

\* #[regex(r"#( +)?")]
TopHeaderLen(s, i) ==
    IF At(s, i) = "#" THEN 1 + Run(s, i + 1, {" "}, FALSE) ELSE 0

\* #[regex(r"#{2,}( +)?")]
LowerHeaderLen(s, i) ==
    LET h == Run(s, i, {"#"}, FALSE)
    IN  IF h >= 2 THEN h + Run(s, i + h, {" "}, FALSE) ELSE 0

\* #[regex(r"( ?)\{#*.*\}")]: `.' is any character but a line feed, so the
\* longest match ends at the last '}' of the line.
TagLen(s, i) ==
    LET b == IF At(s, i) = " " THEN i + 1 ELSE i
    IN  IF At(s, b) # "{" THEN 0
        ELSE LET line == Run(s, b + 1, {LF}, TRUE)
                 closers == {e \in (b + 1)..(b + line) : s[e] = "}"}
             IN  IF closers = {} THEN 0
                 ELSE (CHOOSE e \in closers : \A f \in closers : f <= e) - i + 1

\* #[regex(r"[^(\*\*)\*(__)#\n\r\t\f]")]: one character outside the class
\* ( * ) _ # \n \r \t \f.
TextExcluded == {"(", ")", "*", "_", "#", LF, "\r", "\t", "\f"}

TextLen(s, i) == IF InClass(At(s, i), TextExcluded, TRUE) THEN 1 ELSE 0

\* #[regex(r"[\-\*+] .+(\n)")]
UnorderedListLen(s, i) ==
    IF At(s, i) \in {"-", "*", "+"} /\ At(s, i + 1) = " "
    THEN LET k == Run(s, i + 2, {LF}, TRUE)
         IN  IF k >= 1 /\ At(s, i + 2 + k) = LF THEN k + 3 ELSE 0
    ELSE 0

\* #[regex(r"\[[^\[\]]+\]\([^\(\)]+\)")]
LinkLen(s, i) ==
    IF At(s, i) # "[" THEN 0
    ELSE LET a == Run(s, i + 1, {"[", "]"}, TRUE)
         IN  IF a >= 1 /\ At(s, i + 1 + a) = "]" /\ At(s, i + 2 + a) = "("
             THEN LET b == Run(s, i + 3 + a, {"(", ")"}, TRUE)
                  IN  IF b >= 1 /\ At(s, i + 3 + a + b) = ")"
                      THEN a + b + 4 ELSE 0
             ELSE 0

\* #[regex(r"(\n)?'{3}[^']*'{3}(\n)?")], with ' standing for the backquote.
FENCE == <<TICK, TICK, TICK>>

CodeblockLen(s, i) ==
    LET f == IF At(s, i) = LF THEN i + 1 ELSE i
    IN  IF LitLen(s, f, FENCE) = 0 THEN 0
        ELSE LET c == Run(s, f + 3, {TICK}, TRUE)
             IN  IF LitLen(s, f + 3 + c, FENCE) = 0 THEN 0
                 ELSE (f + c + 6 - i)
                      + (IF At(s, f + c + 6) = LF THEN 1 ELSE 0)

\* The match length of every rule of enum Token at position i.
\* ActiveNewline is declared with #[token], so its pattern is the literal
\* text: a line feed followed by the four characters {2,} .
RuleLens(s, i) ==
    [ Bold             |-> LitLen(s, i, <<"*", "*">>),
      Italic           |-> LitLen(s, i, <<"*">>),
      Underline        |-> LitLen(s, i, <<"_", "_">>),
      TopHeader        |-> TopHeaderLen(s, i),
      LowerHeader      |-> LowerHeaderLen(s, i),
      Tag              |-> TagLen(s, i),
      RemovableNewline |-> LitLen(s, i, <<LF>>),
      ActiveNewline    |-> LitLen(s, i, <<LF, "{", "2", ",", "}">>),
      Text             |-> TextLen(s, i),
      UnorderedList    |-> UnorderedListLen(s, i),
      Link             |-> LinkLen(s, i),
      Codeblock        |-> CodeblockLen(s, i) ]

Variants ==
    {"Bold", "Italic", "Underline", "TopHeader", "LowerHeader", "Tag",
     "RemovableNewline", "ActiveNewline", "Text", "UnorderedList", "Link",
     "Codeblock"}

\* The rule with the longest match among the match lengths `lens', or Err
\* over one character when no rule matches.  No two rules have a longest
\* match of the same length at the same position, so the rule priorities
\* never decide.
Pick(lens, best) ==
    IF best = 0 THEN [variant |-> "Err", len |-> 1]
    ELSE [variant |-> CHOOSE v \in Variants : lens[v] = best, len |-> best]

Longest(lens) ==
    Pick(lens, CHOOSE n \in {lens[v] : v \in Variants} :
                   \A v \in Variants : lens[v] <= n)

\* lex.next() with `off' characters already read: None at the end of the
\* input, else the longest match at the first unread character.
lex_next(s, off) ==
    IF off >= Len(s) THEN [variant |-> "None", len |-> 0]
    ELSE Longest(RuleLens(s, off + 1))

----------------------------------------------------------------------------
(* The renderer.  Every function on State returns the bytes it emits       *)
(* (out) and the State it leaves (st).                                     *)

Flags == {"top_header", "lower_header", "bold", "italic", "underline"}

\* State::default()
StateDefault == [f \in Flags |-> FALSE]

\* def_wrap_env with the test of line 11 inverted: the codes are exchanged.
def_wrap_env_exchanged(st, fname, pre, post) ==
    [out |-> IF st[fname] THEN pre ELSE post,
     st  |-> [st EXCEPT ![fname] = ~st[fname]]]

\* def_wrap_env without line 12: the flag is never flipped.
def_wrap_env_no_flip(st, fname, pre, post) ==
    [out |-> IF ~st[fname] THEN pre ELSE post, st |-> st]

def_wrap_env(st, fname, pre, post) ==
    [out |-> IF ~st[fname] THEN pre ELSE post,
     st  |-> [st EXCEPT ![fname] = ~st[fname]]]

\* def_open_env without the test of line 20: the open sequence is emitted
\* on every call.
def_open_env_unguarded(st, fname, pre) ==
    [out |-> pre, st |-> [st EXCEPT ![fname] = TRUE]]

def_open_env(st, fname, pre) ==
    IF ~st[fname]
    THEN [out |-> pre, st |-> [st EXCEPT ![fname] = TRUE]]
    ELSE [out |-> <<>>, st |-> st]

def_close_env(st, fname, post) ==
    IF ~st[fname]
    THEN [out |-> <<>>, st |-> st]
    ELSE [out |-> post, st |-> [st EXCEPT ![fname] = FALSE]]

wrap_bold(st) == def_wrap_env(st, "bold", BOLD_ON, BOLD_OFF)
wrap_italic(st) == def_wrap_env(st, "italic", ITALIC_ON, ITALIC_OFF)
wrap_underline(st) == def_wrap_env(st, "underline", UNDERLINE_ON, UNDERLINE_OFF)
\* open_top_header with the double-height code before the double-width code.
open_top_header_height_first(st) ==
    def_open_env(st, "top_header",
                 <<LF, LF, ESC, "E", ESC, "W", "1", ESC, "w", "1">>)

open_top_header(st) == def_open_env(st, "top_header", TOP_HEADER_OPEN)
\* close_top_header without the bold-off code.
close_top_header_keeps_bold(st) ==
    def_close_env(st, "top_header", <<ESC, "w", "0", ESC, "W", "0", LF>>)

close_top_header(st) == def_close_env(st, "top_header", TOP_HEADER_CLOSE)
open_lower_header(st) == def_open_env(st, "lower_header", LOWER_HEADER_OPEN)
close_lower_header(st) == def_close_env(st, "lower_header", LOWER_HEADER_CLOSE)

\* new_line closing the inline environments too: every flag is cleared.
new_line_clears_all(st, variant) ==
    LET top == close_top_header(st)
        low == close_lower_header(top.st)
    IN  [out |-> top.out \o low.out
                 \o (IF variant = "ActiveNewline" THEN <<LF>> ELSE <<" ">>),
         st  |-> StateDefault]

\* new_line with lines 152 and 153 exchanged: the lower header is closed
\* first.
new_line_lower_first(st, variant) ==
    LET low == close_lower_header(st)
        top == close_top_header(low.st)
    IN  [out |-> low.out \o top.out
                 \o (IF variant = "ActiveNewline" THEN <<LF>> ELSE <<" ">>),
         st  |-> top.st]

\* new_line with the branches of the `if matches!' of line 155 exchanged.
new_line_swapped(st, variant) ==
    LET top == close_top_header(st)
        low == close_lower_header(top.st)
    IN  [out |-> top.out \o low.out
                 \o (IF variant = "ActiveNewline" THEN <<" ">> ELSE <<LF>>),
         st  |-> low.st]

new_line(st, variant) ==
    LET top == close_top_header(st)
        low == close_lower_header(top.st)
    IN  [out |-> top.out \o low.out
                 \o (IF variant = "ActiveNewline" THEN <<LF>> ELSE <<" ">>),
         st  |-> low.st]

\* The match expression without the Tag arm of line 139: a Tag falls to the
\* default arm.
match_variant_no_tag_arm(variant, st, slice) ==
    CASE variant = "Bold" -> wrap_bold(st)
      [] variant = "Italic" -> wrap_italic(st)
      [] variant = "Underline" -> wrap_underline(st)
      [] variant = "TopHeader" -> open_top_header(st)
      [] variant = "LowerHeader" -> open_lower_header(st)
      [] variant = "RemovableNewline" -> new_line(st, "RemovableNewline")
      [] variant = "ActiveNewline" -> new_line(st, "ActiveNewline")
      [] OTHER -> [out |-> slice, st |-> st]

\* The match expression of lines 128-141.
match_variant(variant, st, slice) ==
    CASE variant = "Bold" -> wrap_bold(st)
      [] variant = "Italic" -> wrap_italic(st)
      [] variant = "Underline" -> wrap_underline(st)
      [] variant = "TopHeader" -> open_top_header(st)
      [] variant = "LowerHeader" -> open_lower_header(st)
      [] variant = "RemovableNewline" -> new_line(st, "RemovableNewline")
      [] variant = "ActiveNewline" -> new_line(st, "ActiveNewline")
      [] variant = "Tag" -> [out |-> <<>>, st |-> st]
      [] OTHER -> [out |-> slice, st |-> st]

\* The push of line 144 left out.
push_trailer_missing(buf) == buf

\* res.push(b'\n') of line 144.
push_trailer(buf) == Append(buf, LF)

----------------------------------------------------------------------------
(* transpile_markdown as a state machine: one action per arm of the loop   *)
(* body, one for a discarded Err, one for the exit.                        *)

\* No second call.
NoOther ==
    [input |-> <<>>, token_end |-> 0, state |-> StateDefault, res |-> <<>>,
     pc |-> "none"]

Init ==
    /\ input \in Inputs
    /\ token_start = 0
    /\ token_end = 0
    /\ tok = "Start"
    /\ state = StateDefault
    /\ res = <<>>
    /\ pc = "loop"
    /\ other = NoOther

\* The result of the call of lex.next() that opens a turn of the loop
\* `while let Some(r) = lex.next()'.
Lexed == {lex_next(input, token_end)}

\* lex.next() returned Some(Ok(variant)) with variant among `variants', and
\* the arm of the match for it ran.
Arm(variants) ==
    /\ \E r \in Lexed :
           /\ r.variant \in variants
           /\ \E e \in {match_variant(r.variant, state,
                             SubSeq(input, token_end + 1, token_end + r.len))} :
                  /\ res' = res \o e.out
                  /\ state' = e.st
           /\ tok' = r.variant
           /\ token_start' = token_end
           /\ token_end' = token_end + r.len
    /\ UNCHANGED <<input, pc, other>>

BoldArm ==
    /\ pc = "loop"
    /\ Arm({"Bold"})

ItalicArm ==
    /\ pc = "loop"
    /\ Arm({"Italic"})

UnderlineArm ==
    /\ pc = "loop"
    /\ Arm({"Underline"})

TopHeaderArm ==
    /\ pc = "loop"
    /\ Arm({"TopHeader"})

LowerHeaderArm ==
    /\ pc = "loop"
    /\ Arm({"LowerHeader"})

RemovableNewlineArm ==
    /\ pc = "loop"
    /\ Arm({"RemovableNewline"})

ActiveNewlineArm ==
    /\ pc = "loop"
    /\ Arm({"ActiveNewline"})

TagArm ==
    /\ pc = "loop"
    /\ Arm({"Tag"})

PassThroughArm ==
    /\ pc = "loop"
    /\ Arm({"Text", "UnorderedList", "Link", "Codeblock"})

\* An Err that ends the conversion instead of being skipped.
ErrAbort ==
    /\ pc = "loop"
    /\ \E r \in Lexed :
           /\ r.variant = "Err"
           /\ token_start' = token_end
           /\ token_end' = token_end + r.len
    /\ tok' = "Err"
    /\ pc' = "done"
    /\ UNCHANGED <<input, state, res, other>>

\* lex.next() returned Some(Err(_)): `if let Ok' fails, nothing is done.
ErrSkip ==
    /\ pc = "loop"
    /\ \E r \in Lexed :
           /\ r.variant = "Err"
           /\ token_start' = token_end
           /\ token_end' = token_end + r.len
    /\ tok' = "Err"
    /\ UNCHANGED <<input, state, res, pc, other>>

\* lex.next() returned None: push the trailing line feed and return.
Finish ==
    /\ pc = "loop"
    /\ \E r \in Lexed : r.variant = "None"
    /\ tok' = "None"
    /\ res' = push_trailer(res)
    /\ pc' = "done"
    /\ UNCHANGED <<input, token_start, token_end, state, other>>

Next ==
    \/ BoldArm
    \/ ItalicArm
    \/ UnderlineArm
    \/ TopHeaderArm
    \/ LowerHeaderArm
    \/ RemovableNewlineArm
    \/ ActiveNewlineArm
    \/ TagArm
    \/ PassThroughArm
    \/ ErrSkip
    \/ Finish

Spec == Init /\ [][Next]_vars

\* The same conversion, started on the longer inputs.
InitDeep ==
    /\ input \in DeepInputs
    /\ token_start = 0
    /\ token_end = 0
    /\ tok = "Start"
    /\ state = StateDefault
    /\ res = <<>>
    /\ pc = "loop"
    /\ other = NoOther

SpecDeep == InitDeep /\ [][Next]_vars

\* The same conversion, started on the inputs of every token kind.
InitBlocks ==
    /\ input \in BlockInputs
    /\ token_start = 0
    /\ token_end = 0
    /\ tok = "Start"
    /\ state = StateDefault
    /\ res = <<>>
    /\ pc = "loop"
    /\ other = NoOther

SpecBlocks == InitBlocks /\ [][Next]_vars

----------------------------------------------------------------------------
(* Two calls of transpile_markdown, their turns interleaved in any order.  *)
(* The locals of lines 122-125 belong to the call that declares them.      *)

\* The State a call would start from if State were one object shared by
\* the calls: what the other call left in it.
leftover_state == other.state

\* let mut state = State::default() of line 123.
fresh_state == StateDefault

\* This call has not begun; the other is about to enter its loop.
InitTwo ==
    /\ input \in TwoInputs
    /\ token_start = 0
    /\ token_end = 0
    /\ tok = "Start"
    /\ state = StateDefault
    /\ res = <<>>
    /\ pc = "call"
    /\ \E a \in OtherInputs :
           other = [input |-> a, token_end |-> 0, state |-> StateDefault,
                    res |-> <<>>, pc |-> "loop"]

\* Lines 122-125 of this call: a new lexer, State and buffer.
Enter ==
    /\ pc = "call"
    /\ token_start' = 0
    /\ token_end' = 0
    /\ state' = fresh_state
    /\ res' = <<>>
    /\ pc' = "loop"
    /\ UNCHANGED <<input, tok, other>>

\* One turn of the other call's loop that consumes input: an Ok token's arm
\* or a skipped Err.
OtherTurn ==
    /\ other.pc = "loop"
    /\ \E r \in {lex_next(other.input, other.token_end)} :
           /\ r.variant # "None"
           /\ \E e \in {IF r.variant = "Err"
                         THEN [out |-> <<>>, st |-> other.state]
                         ELSE match_variant(r.variant, other.state,
                                  SubSeq(other.input, other.token_end + 1,
                                         other.token_end + r.len))} :
                  other' = [other EXCEPT !.token_end = @ + r.len,
                                         !.state = e.st,
                                         !.res = @ \o e.out]
    /\ UNCHANGED <<input, token_start, token_end, tok, state, res, pc>>

\* The other call leaves its loop and returns.
OtherReturn ==
    /\ other.pc = "loop"
    /\ lex_next(other.input, other.token_end).variant = "None"
    /\ other' = [other EXCEPT !.res = push_trailer(@), !.pc = "done"]
    /\ UNCHANGED <<input, token_start, token_end, tok, state, res, pc>>

NextTwo ==
    \/ Next
    \/ Enter
    \/ OtherTurn
    \/ OtherReturn

SpecTwo == InitTwo /\ [][NextTwo]_vars

\* transpile_markdown as a function of its input alone: the loop from
\* offset off with State st and buffer buf.
RECURSIVE transpile_from(_, _, _, _)
transpile_from(s, off, st, buf) ==
    LET r == lex_next(s, off)
    IN  IF r.variant = "None" THEN push_trailer(buf)
        ELSE IF r.variant = "Err" THEN transpile_from(s, off + r.len, st, buf)
        ELSE LET e == match_variant(r.variant, st,
                                    SubSeq(s, off + 1, off + r.len))
             IN  transpile_from(s, off + r.len, e.st, buf \o e.out)

transpile_markdown(s) == transpile_from(s, 0, StateDefault, <<>>)

TypeOK ==
    /\ token_start \in 0..Len(input)
    /\ token_end \in token_start..Len(input)
    /\ tok \in Variants \cup {"Err", "None", "Start"}
    /\ state \in [Flags -> BOOLEAN]
    /\ pc \in {"call", "loop", "done"}

----------------------------------------------------------------------------
(* Helpers of the properties.                                              *)

\* The step taken consumed input: a turn of the loop other than the exit.
Consumed == token_end' # token_end

\* The characters the step taken consumed.
ConsumedSlice == SubSeq(input, token_end + 1, token_end')

\* The bytes the step taken appended (res is append-only).
Appended == SubSeq(res', Len(res) + 1, Len(res'))

\* The positions of seq at which sub occurs.
Occurrences(sub, seq) ==
    {k \in 1..(Len(seq) - Len(sub) + 1) : SubSeq(seq, k, k + Len(sub) - 1) = sub}

\* A run of plain letters and spaces.
IsPlain(t) == \A k \in 1..Len(t) : t[k] \in {"a", " "}

\* The input is `pre', then a plain text, then `post'.
IsFramed(pre, post) ==
    /\ Len(input) >= Len(pre) + Len(post)
    /\ SubSeq(input, 1, Len(pre)) = pre
    /\ SubSeq(input, Len(input) - Len(post) + 1, Len(input)) = post
    /\ IsPlain(SubSeq(input, Len(pre) + 1, Len(input) - Len(post)))

\* The plain text of an input framed by pre and post.
Framed(pre, post) == SubSeq(input, Len(pre) + 1, Len(input) - Len(post))

----------------------------------------------------------------------------
\* C1: the exit of the loop appends exactly one line feed to the buffer and
\* changes nothing else (no flag is closed), and the empty input yields
\* exactly one line feed.
C1_TrailingLineFeed ==
    /\ [](pc = "done" /\ input = <<>> => res = <<LF>>)
    /\ [][pc' = "done" => res' = Append(res, LF) /\ state' = state]_vars

\* A conversion that ended with bold and the top header still open.
C1_Witness ==
    /\ pc = "done"
    /\ state["bold"] /\ state["top_header"]
    /\ res[Len(res)] = LF

\* C2: for each marker M of **, * and __ and every non-empty plain text T,
\* the input M T M yields M's on-code, T, M's off-code and one line feed,
\* and leaves every flag false.
C2_Wrapped(m, on, off) ==
    IsFramed(m, m) /\ Framed(m, m) # <<>>
        => /\ res = on \o Framed(m, m) \o off \o <<LF>>
           /\ state = StateDefault

C2_InlineMarkers ==
    pc = "done" =>
        /\ C2_Wrapped(<<"*", "*">>, BOLD_ON, BOLD_OFF)
        /\ C2_Wrapped(<<"*">>, ITALIC_ON, ITALIC_OFF)
        /\ C2_Wrapped(<<"_", "_">>, UNDERLINE_ON, UNDERLINE_OFF)

\* The conversion of __ T __ with T of two characters has ended.
C2_Witness ==
    /\ pc = "done"
    /\ IsFramed(<<"_", "_">>, <<"_", "_">>)
    /\ Len(Framed(<<"_", "_">>, <<"_", "_">>)) = 2

\* C3: for every plain text T, the input "# " T "\n" yields the top-header
\* open sequence, T, the top-header close sequence and the trailing line
\* feed, with no byte between the close sequence and the line feed.
C3_TopHeaderLine ==
    pc = "done" /\ IsFramed(<<"#", " ">>, <<LF>>)
        => res = TOP_HEADER_OPEN \o Framed(<<"#", " ">>, <<LF>>)
                 \o TOP_HEADER_CLOSE \o <<LF>>

\* C4: for every plain text T, the input "## " T "\n" yields the
\* lower-header open sequence, T and the lower-header close sequence, and
\* ends there, with exactly one line feed after ESC w 0.
C4_LowerHeaderLine ==
    pc = "done" /\ IsFramed(<<"#", "#", " ">>, <<LF>>)
        => res = LOWER_HEADER_OPEN \o Framed(<<"#", "#", " ">>, <<LF>>)
                 \o LOWER_HEADER_CLOSE

\* The input holds exactly one pair of ** markers, two disjoint
\* occurrences of ** and no other asterisk, and no character that starts a
\* list item, a tag or a fence (those tokens pass their text through or
\* drop it, markers included).
HasOneBoldPair ==
    /\ Cardinality({k \in 1..Len(input) : input[k] = "*"}) = 4
    /\ \E i, j \in Occurrences(<<"*", "*">>, input) : j >= i + 2
    /\ \A k \in 1..Len(input) : input[k] \notin {"-", "+", "{", TICK}

\* C5: for every input with exactly one pair of ** markers, whatever lies
\* inside or around the pair, header markers and newlines included, the
\* output holds exactly one bold-on and one bold-off sequence, the first
\* before the second.
C5_OneBoldPair ==
    pc = "done" /\ HasOneBoldPair
        => /\ Cardinality(Occurrences(BOLD_ON, res)) = 1
           /\ Cardinality(Occurrences(BOLD_OFF, res)) = 1
           /\ \A i \in Occurrences(BOLD_ON, res) :
                  \A j \in Occurrences(BOLD_OFF, res) : i < j

\* C6: when no header is open and the lexer stands at the start of a
\* maximal run of two or more line feeds, the turn of the loop yields one
\* ActiveNewline token over the whole run and appends exactly one line
\* feed byte.
C6_ParagraphBreak ==
    [][ /\ Consumed
        /\ ~state["top_header"] /\ ~state["lower_header"]
        /\ At(input, token_end) # LF
        /\ Run(input, token_end + 1, {LF}, FALSE) >= 2
        => /\ tok' = "ActiveNewline"
           /\ token_end' = token_end + Run(input, token_end + 1, {LF}, FALSE)
           /\ Appended = <<LF>> ]_vars

\* C7: when neither header flag is set, a RemovableNewline token, which is
\* a single line feed of the input, appends exactly one space byte and no
\* control code, and leaves every flag unchanged.
C7_RemovableNewline ==
    [][ /\ Consumed
        /\ tok' = "RemovableNewline"
        /\ ~state["top_header"] /\ ~state["lower_header"]
        => /\ ConsumedSlice = <<LF>>
           /\ res' = Append(res, " ")
           /\ state' = state ]_vars

\* A RemovableNewline was processed with bold open and no header open
\* (no header close sequence is in the buffer).
C7_Witness ==
    /\ tok = "RemovableNewline"
    /\ state["bold"]
    /\ res = BOLD_ON \o <<" ">>

\* C8: a turn of the loop that consumes a line feed while a header flag is
\* set leaves that flag false and emits the header's close sequence.
C8_HeaderClosesAtNewline ==
    [][ /\ Consumed
        /\ \E k \in 1..Len(ConsumedSlice) : ConsumedSlice[k] = LF
        => /\ state["top_header"]
              => /\ ~state'["top_header"]
                 /\ Occurrences(TOP_HEADER_CLOSE, Appended) # {}
           /\ state["lower_header"]
              => /\ ~state'["lower_header"]
                 /\ Occurrences(LOWER_HEADER_CLOSE, Appended) # {} ]_vars

\* The input is running text: letters, spaces and lone underscores only.
IsRunningText ==
    /\ \A k \in 1..Len(input) : input[k] \in {"a", " ", "_"}
    /\ Occurrences(<<"_", "_">>, input) = {}

\* C9: the lexer never fails to match, and running text with lone
\* underscores appears verbatim in the output.
C9_NoGaps ==
    /\ tok # "Err"
    /\ pc = "done" /\ IsRunningText => res = input \o <<LF>>

\* C10: processing a Tag token appends no byte and leaves the five flags
\* unchanged.
C10_TagIsNoOp ==
    [][Consumed /\ tok' = "Tag" => res' = res /\ state' = state]_vars

\* A Tag was processed with bold and the top header open and bytes in the
\* buffer.
C10_Witness ==
    /\ tok = "Tag"
    /\ state["bold"] /\ state["top_header"]
    /\ res # <<>>


----------------------------------------------------------------------------
\* A token of the inline marker whose flag is f flips f and emits the
\* on-code when f was false, the off-code when it was true; no other token
\* changes f.
IsToggle(variant, f, on, off) ==
    /\ Consumed /\ tok' = variant
        => /\ state'[f] = ~state[f]
           /\ Appended = (IF state[f] THEN off ELSE on)
    /\ tok' # variant => state'[f] = state[f]

\* C11: flat toggle semantics.  Every Bold token flips the bold flag and
\* emits bold-on when the flag was false and bold-off when it was true, and
\* no token of another kind changes the flag; with the flag false at the
\* start, the k-th Bold token therefore emits bold-on exactly when k is odd
\* and leaves the flag equal to (k is odd).  Likewise for Italic and
\* Underline.  Crossing markup is rendered in token order.
C11_FlatToggle ==
    /\ [](state = StateDefault \/ tok # "Start")
    /\ [][ /\ IsToggle("Bold", "bold", BOLD_ON, BOLD_OFF)
           /\ IsToggle("Italic", "italic", ITALIC_ON, ITALIC_OFF)
           /\ IsToggle("Underline", "underline", UNDERLINE_ON, UNDERLINE_OFF)
         ]_vars

\* Crossing markup: bold on, underline on, bold off, underline off.
C11_Witness ==
    /\ pc = "done"
    /\ input = <<"*", "*", "_", "_", "*", "*", "_", "_">>
    /\ res = BOLD_ON \o UNDERLINE_ON \o BOLD_OFF \o UNDERLINE_OFF \o <<LF>>


OpenMatchesFlag(f, open, close) ==
    Cardinality(Occurrences(open, res))
        = Cardinality(Occurrences(close, res)) + (IF state[f] THEN 1 ELSE 0)

\* C13: a TopHeader token met with top_header set, and a LowerHeader token
\* met with lower_header set, appends nothing and changes no flag; and at
\* every moment each header's open sequences in the buffer are matched by
\* its close sequences but for the one open sequence of a set flag, so a
\* header is opened at most once between two newline tokens and no close
\* sequence is emitted without an unmatched open sequence.
C13_HeaderOpenIdempotent ==
    /\ [](/\ OpenMatchesFlag("top_header", TOP_HEADER_OPEN, TOP_HEADER_CLOSE)
          /\ OpenMatchesFlag("lower_header", LOWER_HEADER_OPEN,
                             LOWER_HEADER_CLOSE))
    /\ [][ /\ Consumed /\ tok' = "TopHeader" /\ state["top_header"]
              => res' = res /\ state' = state
           /\ Consumed /\ tok' = "LowerHeader" /\ state["lower_header"]
              => res' = res /\ state' = state ]_vars

\* A second LowerHeader token was met on a line whose lower header is open:
\* the buffer holds one open sequence.
C13_Witness ==
    /\ tok = "LowerHeader"
    /\ token_start > 0
    /\ res = LOWER_HEADER_OPEN \o <<"a">>


\* The flags a token of the given kind may change.
MayChange(variant) ==
    CASE variant = "Bold" -> {"bold"}
      [] variant = "Italic" -> {"italic"}
      [] variant = "Underline" -> {"underline"}
      [] variant = "TopHeader" -> {"top_header"}
      [] variant = "LowerHeader" -> {"lower_header"}
      [] variant \in {"RemovableNewline", "ActiveNewline"}
             -> {"top_header", "lower_header"}
      [] OTHER -> {}

\* C14: a Bold, Italic or Underline token changes only its own flag, a
\* TopHeader or LowerHeader token only its own header flag, a newline token
\* only the two header flags, and a Text, UnorderedList, Link or Codeblock
\* token no flag.
C14_Orthogonal ==
    [][ Consumed
        => \A f \in Flags : state'[f] # state[f] => f \in MayChange(tok') ]_vars

\* A newline token was processed with italic open: italic is still open.
C14_Witness ==
    /\ tok = "RemovableNewline"
    /\ state["italic"]
    /\ res = ITALIC_ON \o <<" ">>


----------------------------------------------------------------------------
(* The size codes of the control-byte table.                               *)

DOUBLE_WIDTH_ON == <<ESC, "w", "1">>
DOUBLE_WIDTH_OFF == <<ESC, "w", "0">>
DOUBLE_HEIGHT_ON == <<ESC, "W", "1">>
DOUBLE_HEIGHT_OFF == <<ESC, "W", "0">>

\* The bytes the step taken appended, but for the last one.
AppendedButLast == SubSeq(Appended, 1, Len(Appended) - 1)

\* C15: the header sequences emitted are those of the control-byte table.
\* Opening the top header emits two line feeds, bold-on, double-width-on
\* and double-height-on; opening the lower header emits two line feeds and
\* double-width-on; a newline token emits, before its own byte, bold-off,
\* double-width-off, double-height-off and a line feed for an open top
\* header, then double-width-off and a line feed for an open lower header.
C15_TableSequences ==
    [][ /\ Consumed /\ tok' = "TopHeader" /\ ~state["top_header"]
           => Appended = <<LF, LF>> \o BOLD_ON \o DOUBLE_WIDTH_ON
                         \o DOUBLE_HEIGHT_ON
        /\ Consumed /\ tok' = "LowerHeader" /\ ~state["lower_header"]
           => Appended = <<LF, LF>> \o DOUBLE_WIDTH_ON
        /\ Consumed /\ tok' \in {"RemovableNewline", "ActiveNewline"}
           => AppendedButLast =
                  (IF state["top_header"]
                   THEN BOLD_OFF \o DOUBLE_WIDTH_OFF \o DOUBLE_HEIGHT_OFF
                        \o <<LF>>
                   ELSE <<>>)
                  \o (IF state["lower_header"]
                      THEN DOUBLE_WIDTH_OFF \o <<LF>> ELSE <<>>) ]_vars

\* A top header was opened and closed on one line, with a lower header
\* opened before it: all four header sequences are in the buffer.
C15_Witness ==
    /\ tok = "RemovableNewline"
    /\ Occurrences(TOP_HEADER_OPEN, res) # {}
    /\ Occurrences(LOWER_HEADER_OPEN, res) # {}
    /\ Occurrences(TOP_HEADER_CLOSE \o LOWER_HEADER_CLOSE, res) # {}

\* sub occurs in seq exactly once; its position.
OccursOnce(sub, seq) == Cardinality(Occurrences(sub, seq)) = 1
Position(sub, seq) == CHOOSE k \in Occurrences(sub, seq) : TRUE

\* The codes a, b, c occur once each in seq, in that order.
InOrder(a, b, c, seq) ==
    /\ OccursOnce(a, seq) /\ OccursOnce(b, seq) /\ OccursOnce(c, seq)
    /\ Position(a, seq) < Position(b, seq)
    /\ Position(b, seq) < Position(c, seq)

\* C16 as stated: opening the top header emits the blank-line separator,
\* bold-on, double-height-on, double-width-on in that order, and closing it
\* emits bold-off, double-height-off, double-width-off in that order.
C16_HeightBeforeWidth ==
    [][ /\ Consumed /\ tok' = "TopHeader" /\ ~state["top_header"]
           => /\ SubSeq(Appended, 1, 2) = <<LF, LF>>
              /\ InOrder(BOLD_ON, DOUBLE_HEIGHT_ON, DOUBLE_WIDTH_ON, Appended)
        /\ Consumed /\ tok' \in {"RemovableNewline", "ActiveNewline"}
                    /\ state["top_header"]
           => InOrder(BOLD_OFF, DOUBLE_HEIGHT_OFF, DOUBLE_WIDTH_OFF,
                      SubSeq(Appended, 1, Len(TOP_HEADER_CLOSE))) ]_vars

\* C16 as amended: the width code comes before the height code, on opening
\* and on closing.
C16_WidthBeforeHeight ==
    [][ /\ Consumed /\ tok' = "TopHeader" /\ ~state["top_header"]
           => /\ SubSeq(Appended, 1, 2) = <<LF, LF>>
              /\ InOrder(BOLD_ON, DOUBLE_WIDTH_ON, DOUBLE_HEIGHT_ON, Appended)
        /\ Consumed /\ tok' \in {"RemovableNewline", "ActiveNewline"}
                    /\ state["top_header"]
           => InOrder(BOLD_OFF, DOUBLE_WIDTH_OFF, DOUBLE_HEIGHT_OFF,
                      SubSeq(Appended, 1, Len(TOP_HEADER_CLOSE))) ]_vars

\* A top header was opened and then closed by a newline token.
C16_Witness ==
    /\ tok = "RemovableNewline"
    /\ res = TOP_HEADER_OPEN \o <<"a">> \o TOP_HEADER_CLOSE \o <<" ">>


----------------------------------------------------------------------------
\* C17: a lexical non-match is not fatal.  The turn of the loop that gets
\* an error result appends no byte, changes no flag and stays in the loop;
\* the conversion returns only with the whole input consumed and the
\* trailing line feed pushed.
C17_ErrorSkipped ==
    /\ [](pc = "done" => /\ token_end = Len(input)
                         /\ Len(res) > 0
                         /\ res[Len(res)] = LF)
    /\ [][ Consumed /\ tok' = "Err"
           => res' = res /\ state' = state /\ pc' = "loop" ]_vars

\* An unmatched '_' was dropped and the text after it was still rendered.
C17_Witness ==
    /\ pc = "done"
    /\ input = <<"_", "a">>
    /\ res = <<"a", LF>>


\* C18: an UnorderedList token starts at the beginning of an input line:
\* at the start of the input or right after a line feed.
C18_ListAtLineStart ==
    tok = "UnorderedList" => token_start = 0 \/ input[token_start] = LF


\* The positions of the bold codes in the buffer, and whether the last of
\* them is bold-on: the bold mode the byte stream leaves the device in.
BoldCodes == Occurrences(BOLD_ON, res) \cup Occurrences(BOLD_OFF, res)

DeviceBold ==
    /\ BoldCodes # {}
    /\ (CHOOSE k \in BoldCodes : \A j \in BoldCodes : j <= k)
           \in Occurrences(BOLD_ON, res)

\* C20: whenever top_header is false, the bold flag is set exactly when the
\* most recent bold code in the buffer is bold-on.
C20_BoldFlagTracksDevice ==
    ~state["top_header"] => (state["bold"] <=> DeviceBold)


----------------------------------------------------------------------------
\* C19: a call starts from an all-false State and an empty buffer whatever
\* another call has done so far, and its output is the output the same
\* input yields on its own, however the turns of the two calls interleave
\* and whatever flags the other call leaves open.
C19_CallsShareNothing ==
    /\ [](pc = "done" => res = transpile_markdown(input))
    /\ [][pc = "call" /\ pc' = "loop"
          => state' = StateDefault /\ res' = <<>>]_vars

\* This call turned bold on at its marker after the other call had returned
\* with bold still open.
C19_Witness ==
    /\ pc = "done"
    /\ other.pc = "done" /\ other.state["bold"]
    /\ input = <<"*", "*">>
    /\ res = BOLD_ON \o <<LF>>

====
